---- MODULE Spec2Model ----
(***************************************************************************)
(* Model of the batteryIcon GNOME Shell extension (extension.js): the      *)
(* CircleIndicator widget (colour, arc, label, charging glyph) and the     *)
(* BatteryIconExtension object that creates it, feeds it battery readings  *)
(* and shows or hides it against the two stored thresholds.                *)
(*                                                                         *)
(* Numbers.  Colour channels and pixel positions are exact rationals       *)
(* <<numerator, denominator>> (denominator > 0); angles are integers in    *)
(* tenths of a degree; the raw UPower percentage (a double) is an integer  *)
(* count of half percents, so that Math.round has something to round.      *)
(***************************************************************************)
EXTENDS Integers, Sequences, FiniteSets, TLC

(* ------------------------------------------------------------------ *)
(* Program constants                                                     *)
(* ------------------------------------------------------------------ *)
MIN_INDICATOR_SIZE == 22
LOW_BATTERY_THRESHOLD == 50
MIN_BATTERY_PERCENT == 0
MAX_BATTERY_PERCENT == 100

\* The documented defaults of the two settings keys.
DEFAULT_CHARGING_THRESHOLD == 80
DEFAULT_DISCHARGING_THRESHOLD == 90

\* PANEL_SIZE_RATIO = 0.9, as the fraction 9/10.
PANEL_SIZE_RATIO == <<9, 10>>
\* ARC_START_ANGLE = -Math.PI / 2 radians, in tenths of a degree.
ARC_START_ANGLE == -900
\* DEGREES_PER_PERCENT = 3.6, in tenths of a degree.
DEGREES_PER_PERCENT == 36
\* CHARGING_ICON_SCALE = 1.7 and CHARGING_ICON_SPACING = 1.05, as fractions.
CHARGING_ICON_SCALE == <<17, 10>>
CHARGING_ICON_SPACING == <<105, 100>>
\* The literal 5 of "iconX + scaledWidth-5".
CHARGING_TEXT_SHIFT == 5
\* The literal 270 of the arc end angle, in tenths of a degree.
ARC_TOP_DEGREES == 2700

(* ------------------------------------------------------------------ *)
(* Bounds of the model                                                   *)
(* ------------------------------------------------------------------ *)
\* How far beyond [0,100] a status percentage handed to the widget and a
\* threshold written to the settings store may lie.
Over == 1
\* Raw device readings lie within Spread half percents of a mark.
Spread == 1
\* Widest label, in pixels, the text measurement may report.
MaxTextWidth == 3
\* Tallest label, in pixels, the text measurement may report.
MaxTextHeight == 2
\* Device proxies of earlier enable() calls that may still be alive.
MaxStale == 2
\* Idle callbacks that may be pending at once.
MaxIdle == 1

\* Percentages around which the raw readings are drawn: the limits of the
\* range and a threshold between them.
Marks == {MIN_BATTERY_PERCENT, DEFAULT_CHARGING_THRESHOLD, MAX_BATTERY_PERCENT}
\* Values the settings store may hold for either threshold.
StoredThresholds ==
    {MIN_BATTERY_PERCENT - Over, DEFAULT_CHARGING_THRESHOLD,
     DEFAULT_DISCHARGING_THRESHOLD, MAX_BATTERY_PERCENT + Over}
\* Raw device percentages: <<>> is an absent (null/undefined) property,
\* <<h>> the double h/2.
RawReadings ==
    {<<>>} \cup {<<2 * m + k>> : m \in Marks, k \in (-Spread)..Spread}
DeviceStates == {"CHARGING", "DISCHARGING"}
\* Status percentages the widget is exercised with on its own.
WidgetPercentages == (MIN_BATTERY_PERCENT - Over)..(MAX_BATTERY_PERCENT + Over)
\* Panel heights of the host shell, in pixels.
PanelHeights == {20, 32}
\* Pixel sizes (width, height) of the charging.svg resource.
SvgSizes == {<<16, 16>>, <<12, 24>>}

(* ------------------------------------------------------------------ *)
(* Arithmetic of the host language                                       *)
(* ------------------------------------------------------------------ *)
Max(a, b) == IF a >= b THEN a ELSE b
Min(a, b) == IF a <= b THEN a ELSE b

\* Exact rationals.
Rat(n, d) == <<n, d>>
RatInt(n) == <<n, 1>>
RatAdd(a, b) == <<a[1] * b[2] + b[1] * a[2], a[2] * b[2]>>
RatSub(a, b) == <<a[1] * b[2] - b[1] * a[2], a[2] * b[2]>>
RatMul(a, b) == <<a[1] * b[1], a[2] * b[2]>>
RatDiv(a, b) == <<a[1] * b[2], a[2] * b[1]>>
RatEq(a, b) == a[1] * b[2] = b[1] * a[2]
RatLe(a, b) == a[1] * b[2] <= b[1] * a[2]
RatLt(a, b) == a[1] * b[2] < b[1] * a[2]
RatAbs(a) == IF a[1] < 0 THEN <<-a[1], a[2]>> ELSE a

\* Math.floor of a non-negative rational.
Floor(a) == a[1] \div a[2]

\* Math.round of a double given in half percents: the nearest integer, a
\* tie going up (so -0.5 rounds to -0, which compares and prints as 0).
MathRound(h) == (h + 1) \div 2

\* "value ?? -1": the raw percentage, or -1 (-2 half percents) when absent.
OrMinusOne(raw) == IF raw = <<>> THEN -2 ELSE raw[1]

(* ------------------------------------------------------------------ *)
(* CircleIndicator                                                       *)
(* ------------------------------------------------------------------ *)
Black == <<RatInt(0), RatInt(0), RatInt(0)>>

\* _calculateSize: the widget's side from the panel height.
CalculateSize(panelHeight) ==
    Max(MIN_INDICATOR_SIZE, Floor(RatMul(RatInt(panelHeight), PANEL_SIZE_RATIO)))

\* A slip: green scaled by the full range instead of by the half range.
CalculateColor_FullScale(percentage) ==
    IF percentage < MIN_BATTERY_PERCENT \/ percentage > MAX_BATTERY_PERCENT
    THEN Black
    ELSE IF percentage <= LOW_BATTERY_THRESHOLD
         THEN <<RatInt(1), Rat(percentage, MAX_BATTERY_PERCENT), RatInt(0)>>
         ELSE <<RatSub(RatInt(1),
                       Rat(percentage - LOW_BATTERY_THRESHOLD,
                           LOW_BATTERY_THRESHOLD)),
                RatInt(1), RatInt(0)>>

\* A slip: only the lower end of the range is checked.
CalculateColor_NoUpperCheck(percentage) ==
    IF percentage < MIN_BATTERY_PERCENT
    THEN Black
    ELSE IF percentage <= LOW_BATTERY_THRESHOLD
         THEN <<RatInt(1), Rat(percentage, LOW_BATTERY_THRESHOLD), RatInt(0)>>
         ELSE <<RatSub(RatInt(1),
                       Rat(percentage - LOW_BATTERY_THRESHOLD,
                           LOW_BATTERY_THRESHOLD)),
                RatInt(1), RatInt(0)>>

\* _calculateColor: red (0%) -> yellow (50%) -> green (100%), [r, g, b].
CalculateColor(percentage) ==
    IF percentage < MIN_BATTERY_PERCENT \/ percentage > MAX_BATTERY_PERCENT
    THEN Black
    ELSE IF percentage <= LOW_BATTERY_THRESHOLD
         THEN <<RatInt(1), Rat(percentage, LOW_BATTERY_THRESHOLD), RatInt(0)>>
         ELSE <<RatSub(RatInt(1),
                       Rat(percentage - LOW_BATTERY_THRESHOLD,
                           LOW_BATTERY_THRESHOLD)),
                RatInt(1), RatInt(0)>>

\* No widget (a null reference).
NoIndicator ==
    [alive |-> FALSE, status |-> [percentage |-> -1, isCharging |-> FALSE],
     color |-> Black, visible |-> FALSE, parent |-> "none"]

\* _init(status, extensionPath): the widget after construction (its side,
\* _calculateSize(), is what the repaint handler later reads as surface size).
NewCircleIndicator(status) ==
    [alive |-> TRUE, status |-> status, color |-> CalculateColor(status.percentage),
     visible |-> TRUE, parent |-> "none"]

\* update(status): store the status, recompute the colour (and queue a repaint).
IndicatorUpdate(ind, status) ==
    [ind EXCEPT !.status = status, !.color = CalculateColor(status.percentage)]

IndicatorShow(ind) == [ind EXCEPT !.visible = TRUE]
IndicatorHide(ind) == [ind EXCEPT !.visible = FALSE]

\* A slip: no try/catch, the loader's error escapes.
LoadChargingSvg_NoCatch(svg, color) ==
    IF svg.ok
    THEN [surface |-> <<[width |-> svg.size[1], height |-> svg.size[2],
                         tint |-> color]>>,
          logs |-> 0, threw |-> FALSE]
    ELSE [surface |-> <<>>, logs |-> 0, threw |-> TRUE]

\* _loadChargingSvg: svg is what reading charging.svg yields, [ok, size].
\* The tinted surface <<[width, height, tint]>>, or <<>> (null) with one
\* console.error when loading throws; nothing escapes the try/catch.
LoadChargingSvg(svg, color) ==
    IF svg.ok
    THEN [surface |-> <<[width |-> svg.size[1], height |-> svg.size[2],
                         tint |-> color]>>,
          logs |-> 0, threw |-> FALSE]
    ELSE [surface |-> <<>>, logs |-> 1, threw |-> FALSE]

\* _drawChargingIcon: the x position of the label, and whether a glyph was drawn.
DrawChargingIcon(centerX, centerY, textExtents, color, svg) ==
    LET loaded == LoadChargingSvg(svg, color)
        half == RatInt(2)
    IN  IF loaded.threw
        THEN [textX |-> RatInt(0), glyph |-> FALSE, logs |-> loaded.logs,
              threw |-> TRUE]
        ELSE IF loaded.surface = <<>>
        THEN [textX |-> RatSub(centerX, RatDiv(RatInt(textExtents.width), half)),
              glyph |-> FALSE, logs |-> loaded.logs, threw |-> FALSE]
        ELSE LET svgSurface == loaded.surface[1]
                 scale == RatDiv(RatMul(RatInt(textExtents.height), CHARGING_ICON_SCALE),
                                 RatInt(svgSurface.height))
                 scaledWidth == RatMul(RatInt(svgSurface.width), scale)
                 iconX == RatSub(centerX,
                                 RatDiv(RatMul(CHARGING_ICON_SPACING,
                                               RatAdd(RatInt(textExtents.width),
                                                      scaledWidth)),
                                        half))
                 textX == RatSub(RatAdd(iconX, scaledWidth),
                                 RatInt(CHARGING_TEXT_SHIFT))
             IN  [textX |-> textX, glyph |-> TRUE, logs |-> loaded.logs,
                  threw |-> FALSE]

\* Nothing painted yet (or the last drawing invalidated by queue_repaint).
NoPaint ==
    [drawn |-> FALSE, status |-> [percentage |-> -1, isCharging |-> FALSE],
     color |-> Black, arcStart |-> 0, arcEnd |-> 0, width |-> 0,
     textWidth |-> 0, textX |-> RatInt(0), glyph |-> FALSE,
     svgOk |-> FALSE, logs |-> 0, raised |-> FALSE]

\* A slip: the end angle measured from 0 degrees instead of from the top.
ArcEndAngle_FromZero(percentage) == percentage * DEGREES_PER_PERCENT

\* "Draw battery ring": the end angle of the filled arc,
\* (270 - (MAX_BATTERY_PERCENT - percentage) * DEGREES_PER_PERCENT) degrees.
ArcEndAngle(percentage) ==
    ARC_TOP_DEGREES - (MAX_BATTERY_PERCENT - percentage) * DEGREES_PER_PERCENT

\* _onRepaint: the drawing the handler produces for the widget's status.
OnRepaint(ind, surfaceSize, textExtents, svg) ==
    LET width == surfaceSize[1]
        height == surfaceSize[2]
        centerX == Rat(width, 2)
        centerY == Rat(height, 2)
        arcEndAngle == ArcEndAngle(ind.status.percentage)
        plainX == RatSub(centerX, RatDiv(RatInt(textExtents.width), RatInt(2)))
        icon == IF ind.status.isCharging
                THEN DrawChargingIcon(centerX, centerY, textExtents, ind.color, svg)
                ELSE [textX |-> plainX, glyph |-> FALSE, logs |-> 0, threw |-> FALSE]
    IN  [drawn |-> TRUE, status |-> ind.status, color |-> ind.color,
         arcStart |-> ARC_START_ANGLE, arcEnd |-> arcEndAngle,
         width |-> width, textWidth |-> textExtents.width,
         textX |-> icon.textX, glyph |-> icon.glyph, svgOk |-> svg.ok,
         logs |-> icon.logs, raised |-> icon.threw]

\* What loading charging.svg may yield, and what measuring the label may.
SvgResults ==
    {[ok |-> FALSE, size |-> <<0, 0>>]} \cup {[ok |-> TRUE, size |-> s] : s \in SvgSizes}
\* The surface of a widget built under each panel height.
SurfaceSizes == {<<CalculateSize(h), CalculateSize(h)>> : h \in PanelHeights}
TextExtents ==
    {[width |-> w, height |-> h] : w \in 1..MaxTextWidth, h \in 1..MaxTextHeight}

(* ------------------------------------------------------------------ *)
(* State                                                                 *)
(* ------------------------------------------------------------------ *)
VARIABLES
    device,        \* the UPower display device: [percentage, state]
    store,         \* the settings store: [charging, discharging]
    stockPresent,  \* the shell has built quickSettings._system._indicator
    stockVisible,  \* the stock battery icon is visible
    idlePending,   \* idle callbacks of _createIndicator not yet run
    ext,           \* the fields of the BatteryIconExtension object
    indicator,     \* the CircleIndicator held in this._indicator
    stale,         \* device proxies of earlier enables, handlers still connected
    lastUpdate,    \* the locals of _updateIndicator when the last step ran it
    paint          \* what the last run of the repaint handler drew

vars ==
    <<device, store, stockPresent, stockVisible, idlePending, ext, indicator,
      stale, lastUpdate, paint>>

\* The extension object before enable() and after disable().
NoExtension ==
    [settings |-> FALSE, device |-> FALSE, stockIcon |-> FALSE,
     iconParent |-> FALSE, stockWasVisible |-> FALSE, signals |-> 0,
     settingsHandlers |-> 0, timeoutId |-> FALSE]

\* No run of _updateIndicator in the last step.
NoUpdate ==
    [ran |-> FALSE, threw |-> FALSE, percentage |-> -1, isCharging |-> FALSE,
     compared |-> FALSE, chargingThreshold |-> 0, dischargingThreshold |-> 0,
     shouldShow |-> FALSE, repeated |-> FALSE]

\* This run of the update path follows another with nothing changed between.
Repeats(w) == w.lastUpdate.ran

(* ------------------------------------------------------------------ *)
(* BatteryIconExtension                                                  *)
(* ------------------------------------------------------------------ *)
\* A slip: the lower clamp (Math.max) forgotten.
GetValidatedThreshold_NoLowerClamp(value) == Min(MAX_BATTERY_PERCENT, value)

\* _getValidatedThreshold: the stored integer clamped to [0, 100].
GetValidatedThreshold(value) ==
    Max(MIN_BATTERY_PERCENT, Min(MAX_BATTERY_PERCENT, value))

\* A slip: while charging only the charging threshold is compared.
ShouldShow_ChargingOnly(percentage, isCharging, chargingThreshold, dischargingThreshold) ==
    IF isCharging
    THEN (percentage < chargingThreshold)
    ELSE (percentage < dischargingThreshold)

\* A slip: both thresholds are compared whatever the charging state.
ShouldShow_IgnoresState(percentage, isCharging, chargingThreshold, dischargingThreshold) ==
    percentage < chargingThreshold \/ percentage < dischargingThreshold

\* The shouldShow expression of _updateIndicator.
ShouldShow(percentage, isCharging, chargingThreshold, dischargingThreshold) ==
    IF isCharging
    THEN (percentage < chargingThreshold \/ percentage < dischargingThreshold)
    ELSE (percentage < dischargingThreshold)

\* "Try to find stock icon if not found during initial setup": the lookup,
\* and the repositioning of the widget above a stock icon found late.
FindStockIcon(w, env) ==
    IF w.ext.stockIcon
    THEN w
    ELSE LET found == env.stockPresent
             w1 == [w EXCEPT !.ext.stockIcon = found, !.ext.iconParent = found]
         IN  IF found /\ w.indicator.alive
             THEN [w1 EXCEPT !.ext.stockWasVisible = w.stockVisible,
                             !.indicator.parent = "iconParent"]
             ELSE w1

\* "Ensure stock icon stays hidden".
HideStockIcon(w) ==
    IF w.ext.stockIcon THEN [w EXCEPT !.stockVisible = FALSE] ELSE w

\* "Hide indicator if battery info unavailable": hide and return.
HideUnavailable(w, percentage, isCharging) ==
    [w EXCEPT !.indicator = IF w.indicator.alive
                            THEN IndicatorHide(w.indicator) ELSE w.indicator,
              !.lastUpdate = [NoUpdate EXCEPT !.ran = TRUE,
                                              !.percentage = percentage,
                                              !.isCharging = isCharging,
                                              !.repeated = Repeats(w)]]

\* A slip: the widget is shown below the threshold but never hidden again.
ApplyThresholds_NeverHides(w, env, percentage, isCharging) ==
    LET updated == IF w.indicator.alive
                   THEN IndicatorUpdate(w.indicator,
                                        [percentage |-> percentage,
                                         isCharging |-> isCharging])
                   ELSE w.indicator
        chargingThreshold == GetValidatedThreshold(env.store.charging)
        dischargingThreshold == GetValidatedThreshold(env.store.discharging)
        shouldShow == ShouldShow(percentage, isCharging,
                                 chargingThreshold, dischargingThreshold)
    IN  [w EXCEPT !.indicator = IF updated.alive /\ shouldShow
                                THEN IndicatorShow(updated) ELSE updated,
                  !.lastUpdate = [ran |-> TRUE, threw |-> FALSE,
                                  percentage |-> percentage,
                                  isCharging |-> isCharging, compared |-> TRUE,
                                  chargingThreshold |-> chargingThreshold,
                                  dischargingThreshold |-> dischargingThreshold,
                                  shouldShow |-> shouldShow,
                                  repeated |-> Repeats(w)]]

\* "Update indicator display" and "Determine visibility based on thresholds".
ApplyThresholds(w, env, percentage, isCharging) ==
    LET updated == IF w.indicator.alive
                   THEN IndicatorUpdate(w.indicator,
                                        [percentage |-> percentage,
                                         isCharging |-> isCharging])
                   ELSE w.indicator
        chargingThreshold == GetValidatedThreshold(env.store.charging)
        dischargingThreshold == GetValidatedThreshold(env.store.discharging)
        shouldShow == ShouldShow(percentage, isCharging,
                                 chargingThreshold, dischargingThreshold)
    IN  [w EXCEPT !.indicator = IF ~updated.alive THEN updated
                                ELSE IF shouldShow THEN IndicatorShow(updated)
                                ELSE IndicatorHide(updated),
                  !.lastUpdate = [ran |-> TRUE, threw |-> FALSE,
                                  percentage |-> percentage,
                                  isCharging |-> isCharging, compared |-> TRUE,
                                  chargingThreshold |-> chargingThreshold,
                                  dischargingThreshold |-> dischargingThreshold,
                                  shouldShow |-> shouldShow,
                                  repeated |-> Repeats(w)]]

\* A slip: the check for an unavailable battery is missing.
UpdateIndicator_NoSentinel(w, env) ==
    IF ~w.ext.device
    THEN [w EXCEPT !.lastUpdate = [NoUpdate EXCEPT !.ran = TRUE, !.threw = TRUE,
                                                   !.repeated = Repeats(w)]]
    ELSE LET percentage == MathRound(OrMinusOne(env.device.percentage))
             isCharging == env.device.state = "CHARGING"
             w1 == HideStockIcon(FindStockIcon(w, env))
         IN  ApplyThresholds(w1, env, percentage, isCharging)

\* A slip: the stock icon is hidden after the check for an unavailable
\* battery, so the early return skips it.
UpdateIndicator_HideAfterSentinel(w, env) ==
    IF ~w.ext.device
    THEN [w EXCEPT !.lastUpdate = [NoUpdate EXCEPT !.ran = TRUE, !.threw = TRUE,
                                                   !.repeated = Repeats(w)]]
    ELSE LET percentage == MathRound(OrMinusOne(env.device.percentage))
             isCharging == env.device.state = "CHARGING"
             w1 == FindStockIcon(w, env)
         IN  IF percentage < MIN_BATTERY_PERCENT
             THEN HideUnavailable(w1, percentage, isCharging)
             ELSE ApplyThresholds(HideStockIcon(w1), env, percentage, isCharging)

\* _updateIndicator. w is what the extension's code may change, [ext,
\* indicator, stockVisible, stale, lastUpdate]; env what it reads,
\* [device, store, stockPresent].  With this._device cleared the first line
\* throws a TypeError and nothing changes.
UpdateIndicator(w, env) ==
    IF ~w.ext.device
    THEN [w EXCEPT !.lastUpdate = [NoUpdate EXCEPT !.ran = TRUE, !.threw = TRUE,
                                                   !.repeated = Repeats(w)]]
    ELSE LET percentage == MathRound(OrMinusOne(env.device.percentage))
             isCharging == env.device.state = "CHARGING"
             w1 == HideStockIcon(FindStockIcon(w, env))
         IN  IF percentage < MIN_BATTERY_PERCENT
             THEN HideUnavailable(w1, percentage, isCharging)
             ELSE ApplyThresholds(w1, env, percentage, isCharging)

\* n handlers connected to one signal run _updateIndicator one after another.
RECURSIVE UpdateTimes(_, _, _)
UpdateTimes(n, w, env) ==
    IF n = 0 THEN w ELSE UpdateTimes(n - 1, UpdateIndicator(w, env), env)

\* _createIndicator: find the stock icon, build the widget on the sentinel
\* status and place it (the deferred hide is the IdleCallback action).
CreateIndicator(w, env) ==
    LET found == env.stockPresent
        created == NewCircleIndicator([percentage |-> -1, isCharging |-> FALSE])
    IN  IF found
        THEN [w EXCEPT !.ext.stockIcon = TRUE, !.ext.iconParent = TRUE,
                       !.ext.stockWasVisible = w.stockVisible,
                       !.indicator = [created EXCEPT !.parent = "iconParent"]]
        ELSE [w EXCEPT !.ext.stockIcon = FALSE, !.ext.iconParent = FALSE,
                       !.indicator = [created EXCEPT !.parent = "rightBox"]]

\* _setupSignals: two handlers on the settings, two on the device, four ids.
SetupSignals(w) ==
    [w EXCEPT !.ext.settingsHandlers = 2, !.ext.signals = 4]

\* A slip: the timer is started without the first update.
StartUpdateTimer_NoFirstUpdate(w, env) == [w EXCEPT !.ext.timeoutId = TRUE]

\* _startUpdateTimer: one update at once, then the periodic timer.
StartUpdateTimer(w, env) ==
    [UpdateIndicator(w, env) EXCEPT !.ext.timeoutId = TRUE]

\* enable().
EnableExtension(w, env) ==
    LET w1 == [w EXCEPT !.ext.settings = TRUE]            \* _initializeSettings
        w2 == [w1 EXCEPT !.ext.device = TRUE]             \* _initializeUPower
        w3 == CreateIndicator(w2, env)
        w4 == SetupSignals(w3)
    IN  StartUpdateTimer(w4, env)

\* _stopUpdateTimer.
StopUpdateTimer(w) == [w EXCEPT !.ext.timeoutId = FALSE]

\* _disconnectSignals: every id is disconnected from this._settings.  That
\* removes the two settings handlers; the two ids of the device's handlers
\* name no handler of the settings object, so the device proxy keeps them.
DisconnectSignals(w) ==
    [w EXCEPT !.ext.settingsHandlers = 0, !.ext.signals = 0,
              !.stale = IF w.ext.signals > 0 THEN w.stale + 1 ELSE w.stale]

\* _restoreStockIcon.
RestoreStockIcon(w) ==
    IF w.ext.iconParent /\ w.ext.stockIcon
    THEN [w EXCEPT !.stockVisible = IF w.ext.stockWasVisible
                                    THEN TRUE ELSE w.stockVisible,
                   !.indicator.parent =
                       IF w.indicator.alive /\ w.indicator.parent = "iconParent"
                       THEN "none" ELSE w.indicator.parent]
    ELSE w

\* _destroyIndicator.
DestroyIndicator(w) == [w EXCEPT !.indicator = NoIndicator]

\* A slip: the stock icon references are not cleared.
CleanupReferences_KeepsStockIcon(w) ==
    [w EXCEPT !.ext.device = FALSE, !.ext.settings = FALSE]

\* _cleanupReferences: _stockWasVisible, _signals and _timeoutId are kept.
CleanupReferences(w) ==
    [w EXCEPT !.ext.device = FALSE, !.ext.settings = FALSE,
              !.ext.stockIcon = FALSE, !.ext.iconParent = FALSE]

\* disable().
DisableExtension(w) ==
    CleanupReferences(DestroyIndicator(RestoreStockIcon(
        DisconnectSignals(StopUpdateTimer(w)))))

(* ------------------------------------------------------------------ *)
(* The extension in its host: one action per handler or host event        *)
(* ------------------------------------------------------------------ *)
\* World(NoUpdate) when the step changes what the update path reads,
\* World(lastUpdate) when it runs the update path on unchanged inputs.
World(previous) ==
    [ext |-> ext, indicator |-> indicator, stockVisible |-> stockVisible,
     stale |-> stale, lastUpdate |-> previous]

Env(dev, st) == [device |-> dev, store |-> st, stockPresent |-> stockPresent]

Install(w) ==
    /\ ext' = w.ext
    /\ indicator' = w.indicator
    /\ stockVisible' = w.stockVisible
    /\ stale' = w.stale
    /\ lastUpdate' = w.lastUpdate

Init ==
    /\ device \in [percentage : RawReadings, state : DeviceStates]
    /\ store \in [charging : StoredThresholds, discharging : StoredThresholds]
    /\ stockPresent \in BOOLEAN
    /\ stockVisible \in BOOLEAN
    /\ stockPresent \/ ~stockVisible
    /\ idlePending = 0
    /\ ext = NoExtension
    /\ indicator = NoIndicator
    /\ stale = 0
    /\ lastUpdate = NoUpdate
    /\ paint = NoPaint

\* The shell enables the extension.
Enable ==
    /\ ~ext.device
    /\ stale < MaxStale
    /\ stockPresent => idlePending < MaxIdle
    /\ Install(EnableExtension(World(NoUpdate), Env(device, store)))
    /\ idlePending' = IF stockPresent THEN idlePending + 1 ELSE idlePending
    /\ UNCHANGED <<device, store, stockPresent, paint>>

\* The shell disables the extension.
Disable ==
    /\ ext.device
    /\ Install(DisableExtension(World(NoUpdate)))
    /\ UNCHANGED <<device, store, stockPresent, idlePending, paint>>

\* The periodic timer fires.
TimerTick ==
    /\ ext.timeoutId
    /\ Install(UpdateIndicator(World(lastUpdate), Env(device, store)))
    /\ UNCHANGED <<device, store, stockPresent, idlePending, paint>>

\* The idle callback of _createIndicator runs.
IdleCallback ==
    /\ idlePending > 0
    /\ idlePending' = idlePending - 1
    /\ stockVisible' = IF ext.stockIcon THEN FALSE ELSE stockVisible
    /\ lastUpdate' = NoUpdate
    /\ UNCHANGED <<device, store, stockPresent, ext, indicator, stale, paint>>

\* A threshold is written to the settings store (the preferences window or
\* any other writer); changed::<key> runs the handler connected to it.
SettingsChanged ==
    /\ \E st \in [charging : StoredThresholds, discharging : StoredThresholds] :
           /\ (st.charging = store.charging) # (st.discharging = store.discharging)
           /\ store' = st
           /\ Install(UpdateTimes(IF ext.settingsHandlers > 0 THEN 1 ELSE 0,
                                  World(NoUpdate), Env(device, st)))
    /\ UNCHANGED <<device, stockPresent, idlePending, paint>>

\* The number of handlers a device notification runs: the live proxy's and
\* one per stale proxy.
DeviceHandlers == (IF ext.signals > 0 THEN 1 ELSE 0) + stale

\* The battery level changes: notify::percentage.
NotifyPercentage ==
    /\ \E raw \in RawReadings :
           /\ raw # device.percentage
           /\ device' = [device EXCEPT !.percentage = raw]
           /\ Install(UpdateTimes(DeviceHandlers, World(NoUpdate), Env(device', store)))
    /\ UNCHANGED <<store, stockPresent, idlePending, paint>>

\* The charger is plugged or unplugged: notify::state.
NotifyState ==
    /\ \E state \in DeviceStates :
           /\ state # device.state
           /\ device' = [device EXCEPT !.state = state]
           /\ Install(UpdateTimes(DeviceHandlers, World(NoUpdate), Env(device', store)))
    /\ UNCHANGED <<store, stockPresent, idlePending, paint>>

\* A device proxy of an earlier enable is garbage collected.
CollectStale ==
    /\ stale > 0
    /\ stale' = stale - 1
    /\ lastUpdate' = NoUpdate
    /\ UNCHANGED <<device, store, stockPresent, stockVisible, idlePending, ext,
                   indicator, paint>>

\* The shell builds its battery indicator after the extension was enabled.
StockAppears ==
    /\ ~stockPresent
    /\ stockPresent' = TRUE
    /\ stockVisible' \in BOOLEAN
    /\ lastUpdate' = NoUpdate
    /\ UNCHANGED <<device, store, idlePending, ext, indicator, stale, paint>>

\* The shell makes its battery indicator visible again.
StockShown ==
    /\ stockPresent /\ ~stockVisible
    /\ stockVisible' = TRUE
    /\ lastUpdate' = NoUpdate
    /\ UNCHANGED <<device, store, stockPresent, idlePending, ext, indicator,
                   stale, paint>>

Next ==
    \/ Enable
    \/ Disable
    \/ TimerTick
    \/ IdleCallback
    \/ SettingsChanged
    \/ NotifyPercentage
    \/ NotifyState
    \/ CollectStale
    \/ StockAppears
    \/ StockShown

Spec == Init /\ [][Next]_vars

(* ------------------------------------------------------------------ *)
(* The widget on its own: any status, repainted by the compositor         *)
(* ------------------------------------------------------------------ *)
WidgetStatuses == [percentage : WidgetPercentages, isCharging : BOOLEAN]

WidgetInit ==
    /\ device = [percentage |-> <<>>, state |-> "DISCHARGING"]
    /\ store = [charging |-> DEFAULT_CHARGING_THRESHOLD,
                discharging |-> DEFAULT_DISCHARGING_THRESHOLD]
    /\ stockPresent = FALSE
    /\ stockVisible = FALSE
    /\ idlePending = 0
    /\ ext = NoExtension
    /\ \E status \in WidgetStatuses : indicator = NewCircleIndicator(status)
    /\ stale = 0
    /\ lastUpdate = NoUpdate
    /\ paint = NoPaint

\* update(status) is called on the widget.
WidgetUpdate ==
    /\ indicator.alive
    /\ \E status \in WidgetStatuses :
           /\ status # indicator.status
           /\ indicator' = IndicatorUpdate(indicator, status)
    /\ paint' = NoPaint
    /\ UNCHANGED <<device, store, stockPresent, stockVisible, idlePending, ext,
                   stale, lastUpdate>>

\* The compositor emits "repaint" on the visible widget.
WidgetRepaint ==
    /\ indicator.alive /\ indicator.visible
    /\ \E surfaceSize \in SurfaceSizes, textExtents \in TextExtents,
          svg \in SvgResults :
           paint' = OnRepaint(indicator, surfaceSize, textExtents, svg)
    /\ UNCHANGED <<device, store, stockPresent, stockVisible, idlePending, ext,
                   indicator, stale, lastUpdate>>

WidgetNext == WidgetUpdate \/ WidgetRepaint

WidgetSpec == WidgetInit /\ [][WidgetNext]_vars

(* ------------------------------------------------------------------ *)
(* Properties                                                            *)
(* ------------------------------------------------------------------ *)
\* The percentage the update path works with: the rounded device reading.
ReadPercentage == MathRound(OrMinusOne(device.percentage))
\* A stored threshold as the policy is to see it.
Clamped(v) == IF v < 0 THEN 0 ELSE IF v > 100 THEN 100 ELSE v
\* The last step ran the update path to its end on a live widget.
Updated == lastUpdate.ran /\ ~lastUpdate.threw /\ indicator.alive

\* C1: after the update path ran on a charging reading with percentage
\* p >= 0, the widget is visible exactly when p is below the charging or
\* below the discharging threshold (both clamped), which is exactly when p
\* is below the larger of the two.
C1_ChargingVisibility ==
    (Updated /\ device.state = "CHARGING" /\ ReadPercentage >= 0) =>
        LET p == ReadPercentage
            c == Clamped(store.charging)
            d == Clamped(store.discharging)
        IN  /\ indicator.visible = (p < c \/ p < d)
            /\ indicator.visible = (p < (IF c >= d THEN c ELSE d))

\* C1 happens: charging, at or above the charging threshold, below the
\* discharging one, and shown.
C1_Witness ==
    /\ Updated /\ device.state = "CHARGING"
    /\ ReadPercentage >= store.charging /\ store.charging = 80
    /\ ReadPercentage < store.discharging /\ store.discharging = 90
    /\ indicator.visible

\* C2: after the update path ran on a reading that is not charging, with
\* percentage p >= 0, the widget is visible exactly when p is below the
\* clamped discharging threshold, whatever the charging threshold.
C2_DischargingVisibility ==
    (Updated /\ device.state # "CHARGING" /\ ReadPercentage >= 0) =>
        indicator.visible = (ReadPercentage < Clamped(store.discharging))

\* C2 happens: not charging, below the charging threshold, not below the
\* discharging one, and hidden.
C2_Witness ==
    /\ Updated /\ device.state # "CHARGING"
    /\ ReadPercentage >= 0
    /\ ReadPercentage < Clamped(store.charging)
    /\ ReadPercentage >= Clamped(store.discharging)
    /\ ~indicator.visible

\* C3: after the update path ran on a negative percentage the widget is
\* hidden, and the thresholds were never compared.
C3_UnavailableHidden ==
    (Updated /\ ReadPercentage < 0) =>
        (~indicator.visible /\ ~lastUpdate.compared)

\* C3 happens: a widget holding a status that the thresholds would show is
\* hidden by an update on an unavailable battery.
C3_Witness ==
    /\ Updated /\ ReadPercentage < 0
    /\ indicator.status.percentage >= 0
    /\ indicator.status.percentage < Clamped(store.discharging)
    /\ ~indicator.visible

\* C4: whenever the widget is visible the status it holds has a percentage
\* within [0, 100].
C4_VisibleStatusInRange ==
    (indicator.alive /\ indicator.visible) =>
        (indicator.status.percentage >= 0 /\ indicator.status.percentage <= 100)

\* C4 happens: a reading above 100 reached the widget, which is hidden.
C4_Witness ==
    /\ Updated /\ ReadPercentage > 100
    /\ indicator.status.percentage > 100
    /\ store.discharging > 100
    /\ ~indicator.visible

\* C5: the thresholds the update path compares against are the stored
\* values clamped to [0, 100].
C5_ThresholdsClamped ==
    lastUpdate.compared =>
        /\ lastUpdate.chargingThreshold = Clamped(store.charging)
        /\ lastUpdate.dischargingThreshold = Clamped(store.discharging)
        /\ lastUpdate.chargingThreshold \in 0..100
        /\ lastUpdate.dischargingThreshold \in 0..100

\* C5 happens: one stored threshold above 100, the other below 0, compared.
C5_Witness ==
    /\ lastUpdate.compared
    /\ store.charging > 100 /\ lastUpdate.chargingThreshold = 100
    /\ store.discharging < 0 /\ lastUpdate.dischargingThreshold = 0

\* The colour the specification gives a percentage within [0, 100].
GradientColor(p) ==
    IF p <= 50 THEN <<Rat(1, 1), Rat(p, 50), Rat(0, 1)>>
    ELSE <<RatSub(Rat(1, 1), Rat(p - 50, 50)), Rat(1, 1), Rat(0, 1)>>
SameColor(a, b) == \A i \in 1..3 : RatEq(a[i], b[i])

C7_ColorOutOfRange ==
    LET p == indicator.status.percentage
    IN  (indicator.alive /\ (p < 0 \/ p > 100)) =>
            SameColor(indicator.color, <<Rat(0, 1), Rat(0, 1), Rat(0, 1)>>)

\* C7 happens: a widget holding 101% is painted black.
C7_Witness ==
    /\ indicator.alive /\ indicator.status.percentage = 101
    /\ paint.drawn
    /\ SameColor(paint.color, <<Rat(0, 1), Rat(0, 1), Rat(0, 1)>>)

\* C8: the arc starts at -90 degrees; for p in [0, 100] its sweep is
\* 3.6 p degrees, 0 at 0 and 360 at 100, and smaller than the sweep of p+1.
C8_ArcSweep ==
    LET p == paint.status.percentage
        sweep == paint.arcEnd - paint.arcStart
    IN  paint.drawn =>
            /\ paint.arcStart = -900
            /\ (p >= 0 /\ p <= 100) =>
                   /\ sweep = 36 * p
                   /\ p = 0 => sweep = 0
                   /\ p = 100 => sweep = 3600
                   /\ p < 100 => sweep < ArcEndAngle(p + 1) - paint.arcStart

\* C8 happens: a full ring is painted at 100%.
C8_Witness ==
    /\ paint.drawn /\ paint.status.percentage = 100
    /\ paint.arcEnd - paint.arcStart = 3600

\* C9: a repaint of a charging status whose glyph fails to load raises
\* nothing, draws no glyph, puts the label at centerX - textWidth/2 and logs
\* exactly one entry.
C9_GlyphFailure ==
    (paint.drawn /\ paint.status.isCharging /\ ~paint.svgOk) =>
        /\ ~paint.raised
        /\ ~paint.glyph
        /\ RatEq(paint.textX, Rat(paint.width - paint.textWidth, 2))
        /\ paint.logs = 1

\* C9 happens: a charging status painted without its glyph, one entry logged.
C9_Witness ==
    /\ paint.drawn /\ paint.status.isCharging /\ ~paint.svgOk
    /\ paint.status.percentage = 50
    /\ paint.logs = 1 /\ ~paint.glyph

\* What the policy gives for the current reading and stored thresholds.
PolicyVisible(dev, st) ==
    LET p == MathRound(OrMinusOne(dev.percentage))
    IN  /\ p >= 0
        /\ IF dev.state = "CHARGING"
           THEN p < Clamped(st.charging) \/ p < Clamped(st.discharging)
           ELSE p < Clamped(st.discharging)

\* C10: every run of the update path, from the timer or from a
\* notification, leaves the visibility the current reading and thresholds
\* alone determine; and a run that follows a run on the same reading and
\* thresholds changes nothing of the widget.
C10_UpdateIdempotent ==
    [][(lastUpdate'.ran /\ ~lastUpdate'.threw /\ indicator'.alive) =>
          /\ indicator'.visible = PolicyVisible(device', store')
          /\ (Updated /\ device' = device /\ store' = store) =>
                 indicator' = indicator]_vars

\* C10 happens: the update path ran again on unchanged inputs and the widget
\* is visible.
C10_Witness ==
    /\ Updated /\ lastUpdate.repeated
    /\ indicator.visible
    /\ ext.timeoutId

\* C11: once disable() has returned, the timer and all four signal handlers
\* are gone, and no event runs the update path on the cleared references.
C11_HandlesTornDown ==
    ~ext.device =>
        /\ ~ext.timeoutId
        /\ ext.settingsHandlers = 0
        /\ stale = 0
        /\ ~lastUpdate.ran

C13_StockIconHidden ==
    (lastUpdate.ran /\ ~lastUpdate.threw /\ ext.stockIcon) => ~stockVisible

\* C13 happens: an update on an unavailable battery returned early and left
\* the stock icon, visible when it was located, hidden.
C13_Witness ==
    /\ lastUpdate.ran /\ ~lastUpdate.threw /\ ~lastUpdate.compared
    /\ ext.stockIcon /\ ext.stockWasVisible
    /\ ~stockVisible

====
